---- MODULE Spec2Model ----
(***************************************************************************)
(* StayCircle booking workflow engine: the bookings table, the request     *)
(* handlers of app/routes/bookings.py and app/payments.py, the expiry      *)
(* sweeper of app/sweepers.py and the Redis advisory lock of app/locks.py. *)
(*                                                                         *)
(* Each handler is cut into steps at the points where it talks to the      *)
(* database, to Redis or to the payment provider: every SQL statement of a *)
(* handler sees the rows committed so far (the sessions run at the         *)
(* backend's default isolation and take no row lock on bookings), so other *)
(* requests may commit between two steps of one handler.                   *)
(***************************************************************************)
EXTENDS Integers, Sequences, FiniteSets, TLC

\* ---------------------------------------------------------------- bounds
MaxBookings == 2      \* rows of the bookings table when requests run one at a time
MaxRaceRows == 1      \* rows of the bookings table when all handlers race
MaxProcs    == 2      \* requests / sweeper runs in flight at once
MaxDate     == 3      \* calendar days 1..MaxDate
MaxTime     == 2      \* the clock runs 0..MaxTime
MaxCancels == 1     \* PaymentIntents the provider cancels
MaxClients == 2     \* client addresses the rate limiter counts
MaxHits == 3        \* a counter key is incremented up to MaxHits

\* ------------------------------------------------------ program constants
HOLD_MINUTES == 1     \* the hold window; the clock counts in hold windows
RATE_LIMIT_WRITE_PER_WINDOW == 1   \* requests admitted per window
NULL         == 0     \* a NULL expires_at

NoPI     == <<>>      \* NULL payment_intent_id
NoReason == "none"    \* NULL cancel_reason

Procs     == 1..MaxProcs
Dates     == 1..MaxDate
Tenants   == {"t1", "t2"}
Landlords == {"l1", "l2"}
Users     == Tenants \cup Landlords
Guests    == {"t1"}   \* the tenants who book
PropertyIds == {1}

VARIABLES
  properties,   \* the properties table: id -> row
  bookings,     \* the bookings table: row id -> row
  procs,        \* the requests in flight: slot -> handler position and locals
  clock,        \* datetime.now(timezone.utc)
  lock,         \* Redis key lock:booking:property:{id} -> token of its holder
  piStatus,     \* the provider's PaymentIntents: id -> status
  stripeOn,     \* stripe_enabled()
  confirms,     \* history: committed transitions into 'confirmed' per row
  counters      \* Redis keys rl:v1:ip:{ip}:{scope} -> count and whether a TTL is set

vars ==
  <<properties, bookings, procs, clock, lock, piStatus, stripeOn, confirms,
    counters>>

Ids == 1..Len(bookings)

Idle ==
  [op |-> "none", pc |-> "idle", b |-> 0, ver |-> 0, reason |-> NoReason,
   pi |-> NoPI, items |-> {}, s |-> 0, e |-> 0, user |-> "none",
   acq |-> FALSE, res |-> "none"]

\* A finished request: only its response is kept (the branch of the handler
\* that answered, and the booking it answered with).
Done(res, b) == [Idle EXCEPT !.pc = "done", !.res = res, !.b = b]

\* A slot takes a new request once the last one was answered.
Free(p) == procs[p].pc \in {"idle", "done"}

\* auth.py require_landlord; require_tenant is its counterpart for tenants.
require_landlord(user) == user \in Landlords
require_tenant(user) == user \in Tenants

\* ------------------------------------------------------------ the database
\* models.Booking with the column values create_booking gives a new row.
Booking(pid, guest, s, e, st, total, exp) ==
  [property_id |-> pid, guest_id |-> guest, start_date |-> s, end_date |-> e,
   status |-> st, total_cents |-> total, currency |-> "USD",
   payment_intent_id |-> NoPI, expires_at |-> exp, cancel_reason |-> NoReason,
   version |-> 1]

\* NOT (existing.end_date <= start_date OR existing.start_date >= end_date)
RangesOverlap(row, s, e) == ~(row.end_date <= s \/ row.start_date >= e)

\* _has_overlap without the property_id filter.
_has_overlap_any_listing(bks, pid, s, e) ==
  \E i \in 1..Len(bks) :
    /\ bks[i].status = "confirmed"
    /\ RangesOverlap(bks[i], s, e)

\* bookings.py _has_overlap: a confirmed row of the property overlaps [s, e).
_has_overlap(bks, pid, s, e) ==
  \E i \in 1..Len(bks) :
    /\ bks[i].property_id = pid
    /\ bks[i].status = "confirmed"
    /\ RangesOverlap(bks[i], s, e)

\* _has_confirmed_overlap that only finds a confirmed stay covering all of
\* [s, e).
_has_confirmed_overlap_covering(bks, pid, s, e) ==
  \E i \in 1..Len(bks) :
    /\ bks[i].property_id = pid
    /\ bks[i].status = "confirmed"
    /\ bks[i].start_date <= s
    /\ e <= bks[i].end_date

\* payments.py _has_confirmed_overlap: the same query, used at reconciliation.
_has_confirmed_overlap(bks, pid, s, e) ==
  \E i \in 1..Len(bks) :
    /\ bks[i].property_id = pid
    /\ bks[i].status = "confirmed"
    /\ RangesOverlap(bks[i], s, e)

\* History of transitions into 'confirmed', kept beside every table write.
Confirmed(old, new) ==
  [i \in DOMAIN confirms |->
     IF i \in 1..Len(old) /\ old[i].status # "confirmed"
        /\ new[i].status = "confirmed"
     THEN confirms[i] + 1 ELSE confirms[i]]

\* Every table write goes through here.
Commit(new) ==
  /\ bookings' = new
  /\ confirms' = Confirmed(bookings, new)

NoCommit == UNCHANGED <<bookings, confirms>>

\* Lapsed that still lets a hold through at the instant of its deadline.
Lapsed_after_deadline(row, now) == row.expires_at = NULL \/ row.expires_at < now

\* The hold has lapsed: expires_at is None or expires_at <= now.
Lapsed(row, now) == row.expires_at = NULL \/ row.expires_at <= now

\* --------------------------------------------------------- the Redis lock
\* LockOutcomes of a lock that a second caller takes over (SET without NX).
LockOutcomes_without_NX(pid) == {"failopen", "acquired"}

\* locks.py redis_try_lock, entering the with block. The outcomes:
\*   "failopen": get_redis() is None or r.set raised: locked, nothing stored;
\*   "acquired": SET key token NX PX ttl stored the caller's token;
\*   "busy":     the key exists: not locked.
LockOutcomes(pid) ==
  {"failopen"} \cup (IF lock[pid] = 0 THEN {"acquired"} ELSE {"busy"})

\* locks.py 43-50: the with block is left by an exception raising res. When
\* r.set returned (the key was stored or found), the yield sits inside the
\* try: except Exception catches the exception thrown in at the yield and
\* yields a second time, contextlib raises RuntimeError ("generator didn't
\* stop after throw()") and the caller is answered 500 instead of res; the
\* suspended generator has not reached its finally, so nothing is released.
\* Failing open, the yield is outside the try and res passes through.
Raised(res, out) == IF out = "failopen" THEN res ELSE "500_runtime"

Acquire(lk, pid, p, out) == IF out = "acquired" THEN [lk EXCEPT ![pid] = p] ELSE lk

\* Release that deletes the key whoever stored it, and without having
\* acquired it.
Release_unconditional(lk, pid, p, acq) == [lk EXCEPT ![pid] = 0]

\* Release that deletes the key without comparing its token (a plain DEL).
Release_without_token(lk, pid, p, acq) ==
  IF acq THEN [lk EXCEPT ![pid] = 0] ELSE lk

\* locks.py redis_try_lock, leaving the with block: token-checked delete.
Release(lk, pid, p, acq) ==
  IF acq /\ lk[pid] = p THEN [lk EXCEPT ![pid] = 0] ELSE lk

\* A key set without PX: it never expires.
LockExpire_without_PX(pid) ==
  /\ lock[pid] # 0
  /\ UNCHANGED vars

\* The key's PX ttl runs out (or the generator a RuntimeError left suspended
\* is finalised and deletes the key it stored).
LockExpire(pid) ==
  /\ lock[pid] # 0
  /\ lock' = [lock EXCEPT ![pid] = 0]
  /\ UNCHANGED <<counters, properties, bookings, procs, clock, piStatus, stripeOn, confirms>>

\* ------------------------------------------------------ payment provider
\* payments.py create_payment_intent: offline it returns pi_test_{id}; with
\* Stripe on, the intent the idempotency key booking:{id}:v{version} names.
IntentId(b, v) == IF stripeOn THEN <<b, v>> ELSE <<b, 0>>

OpenIntent(ps, pi) ==
  IF stripeOn /\ pi \notin DOMAIN ps THEN ps @@ (pi :> "processing") ELSE ps

\* Retrieve that reports success for an intent nobody paid.
Retrieve_fabricates_success(pi) ==
  {"error", "succeeded"} \cup (IF pi \in DOMAIN piStatus THEN {piStatus[pi]} ELSE {})

\* stripe.PaymentIntent.retrieve(id).status; "error" when the call raises.
Retrieve(pi) ==
  {"error"} \cup (IF pi \in DOMAIN piStatus THEN {piStatus[pi]} ELSE {})

\* The customer pays: the provider marks the intent succeeded.
PaymentSucceeds(pi) ==
  /\ pi \in DOMAIN piStatus
  /\ piStatus[pi] = "processing"
  /\ piStatus' = [piStatus EXCEPT ![pi] = "succeeded"]
  /\ UNCHANGED <<counters, properties, bookings, procs, clock, lock, stripeOn, confirms>>

\* The provider cancels an intent that was not paid (abandoned, or cancelled
\* from the dashboard): retrieve reports "canceled" from then on.
PaymentCanceled(pi) ==
  /\ pi \in DOMAIN piStatus
  /\ piStatus[pi] = "processing"
  /\ Cardinality({q \in DOMAIN piStatus : piStatus[q] = "canceled"}) < MaxCancels
  /\ piStatus' = [piStatus EXCEPT ![pi] = "canceled"]
  /\ UNCHANGED <<counters, properties, bookings, procs, clock, lock, stripeOn, confirms>>

\* ------------------------------------------------------------------ time
Tick ==
  /\ clock < MaxTime
  /\ clock' = clock + 1
  /\ UNCHANGED <<counters, properties, bookings, procs, lock, piStatus, stripeOn, confirms>>

\* The conditional update of Finalize:
\*   UPDATE bookings SET status='confirmed', version=cur+1
\*   WHERE id=b AND version=cur AND status='pending_payment'
FinalizeRows(bks, b, cur) ==
  IF bks[b].version = cur /\ bks[b].status = "pending_payment" THEN 1 ELSE 0

FinalizeUpdate(bks, b, cur) ==
  IF FinalizeRows(bks, b, cur) = 1
  THEN [bks EXCEPT ![b].status = "confirmed", ![b].version = cur + 1]
  ELSE bks

\* The ORM flush of a loaded row: UPDATE bookings SET <changed> WHERE id = b.
SetIntent(bks, b, pi) == [bks EXCEPT ![b].payment_intent_id = pi]

Creating ==
  Cardinality({p \in Procs : procs[p].op = "create" /\ procs[p].pc = "insert"})

\* --------------------------------------------------------- create_booking
\* bookings.py 66-100: validation, property lookup, lock, overlap check.
create_booking(p, pid, guest, s, e) ==
  /\ Free(p)
  /\ UNCHANGED <<counters, properties, clock, piStatus, stripeOn>>
  /\ NoCommit
  /\ IF ~require_tenant(guest)
     THEN /\ procs' = [procs EXCEPT ![p] = Done("403", 0)]
          /\ UNCHANGED lock
     ELSE IF s >= e
     THEN /\ procs' = [procs EXCEPT ![p] = Done("400_dates", 0)]
          /\ UNCHANGED lock
     ELSE IF pid \notin DOMAIN properties
     THEN /\ procs' = [procs EXCEPT ![p] = Done("404", 0)]
          /\ UNCHANGED lock
     ELSE \E out \in LockOutcomes(pid) :
            IF out = "busy"
            THEN /\ procs' = [procs EXCEPT ![p] = Done(Raised("429_busy", out), 0)]
                 /\ UNCHANGED lock
            ELSE IF _has_overlap(bookings, pid, s, e)
            THEN \* the with block is left at once, by HTTPException 409
                 /\ procs' = [procs EXCEPT ![p] =
                        Done(Raised("create_409_overlap", out), 0)]
                 /\ lock' = Acquire(lock, pid, p, out)
            ELSE /\ procs' = [procs EXCEPT ![p] =
                        [Idle EXCEPT !.op = "create", !.pc = "insert", !.b = pid,
                                     !.user = guest, !.s = s, !.e = e,
                                     !.acq = (out = "acquired")]]
                 /\ lock' = Acquire(lock, pid, p, out)

\* NewBooking with a hold that lapses at once (no hold window added).
NewBooking_no_window(props, pid, guest, s, e, now) ==
  IF props[pid].requires_approval
  THEN Booking(pid, guest, s, e, "requested", props[pid].price_cents * (e - s), NULL)
  ELSE Booking(pid, guest, s, e, "pending_payment",
               props[pid].price_cents * (e - s), now)

\* NewBooking that charges the price of one night whatever the stay.
NewBooking_per_stay(props, pid, guest, s, e, now) ==
  IF props[pid].requires_approval
  THEN Booking(pid, guest, s, e, "requested", props[pid].price_cents, NULL)
  ELSE Booking(pid, guest, s, e, "pending_payment",
               props[pid].price_cents, now + HOLD_MINUTES)

\* bookings.py 102-120: the row create_booking builds.
NewBooking(props, pid, guest, s, e, now) ==
  IF props[pid].requires_approval
  THEN Booking(pid, guest, s, e, "requested", props[pid].price_cents * (e - s), NULL)
  ELSE Booking(pid, guest, s, e, "pending_payment",
               props[pid].price_cents * (e - s), now + HOLD_MINUTES)

\* bookings.py 102-123: insert and commit. A requested row is answered at once
\* (lines 144-148), which leaves the with block.
create_booking_insert(p) ==
  LET me  == procs[p]
      pid == me.b
      row == NewBooking(properties, pid, me.user, me.s, me.e, clock)
      id  == Len(bookings) + 1
  IN
  /\ me.op = "create" /\ me.pc = "insert"
  /\ Commit(Append(bookings, row))
  /\ UNCHANGED <<counters, properties, clock, piStatus, stripeOn>>
  /\ IF row.status = "pending_payment"
     THEN /\ procs' = [procs EXCEPT ![p] =
                 [Idle EXCEPT !.op = "create", !.pc = "intent", !.b = id,
                              !.ver = row.version, !.acq = me.acq]]
          /\ UNCHANGED lock
     ELSE /\ procs' = [procs EXCEPT ![p] = Done("201_await_approval", id)]
          /\ lock' = Release(lock, pid, p, me.acq)

\* bookings.py 126-148 (and 153-155): open the PaymentIntent, store its id,
\* answer. The provider call may raise: the handler raises 500 inside the with
\* block.
create_booking_intent(p) ==
  LET me == procs[p]
      pi == IntentId(me.b, me.ver)
  IN
  /\ me.op = "create" /\ me.pc = "intent"
  /\ UNCHANGED <<counters, properties, clock, stripeOn>>
  /\ \/ /\ piStatus' = OpenIntent(piStatus, pi)
        /\ Commit(SetIntent(bookings, me.b, pi))
        /\ lock' = Release(lock, bookings[me.b].property_id, p, me.acq)
        /\ procs' = [procs EXCEPT ![p] = Done("201_pay", me.b)]
     \/ /\ stripeOn
        /\ UNCHANGED <<piStatus, lock>>
        /\ NoCommit
        /\ procs' = [procs EXCEPT ![p] =
             Done(Raised("500", IF me.acq THEN "acquired" ELSE "failopen"), 0)]

\* -------------------------------------------------------- approve_booking
\* bookings.py 216-218: what approve writes to the row it loaded.
ApproveWrite(bks, b, ver, now) ==
  [bks EXCEPT ![b].status = "pending_payment",
              ![b].expires_at = now + HOLD_MINUTES,
              ![b].version = ver + 1]

\* bookings.py 197-214: load, authorise, check the status, take the lock.
approve_booking(p, user, b) ==
  /\ Free(p)
  /\ UNCHANGED <<counters, properties, clock, piStatus, stripeOn>>
  /\ NoCommit
  /\ IF ~require_landlord(user)
     THEN procs' = [procs EXCEPT ![p] = Done("403", 0)] /\ UNCHANGED lock
     ELSE IF b \notin Ids
     THEN procs' = [procs EXCEPT ![p] = Done("404", 0)] /\ UNCHANGED lock
     ELSE IF properties[bookings[b].property_id].owner_id # user
     THEN procs' = [procs EXCEPT ![p] = Done("403", 0)] /\ UNCHANGED lock
     ELSE IF bookings[b].status # "requested"
     THEN procs' = [procs EXCEPT ![p] = Done("400_not_requested", 0)] /\ UNCHANGED lock
     ELSE \E out \in LockOutcomes(bookings[b].property_id) :
            IF out = "busy"
            THEN procs' = [procs EXCEPT ![p] = Done(Raised("429_busy", out), 0)]
                 /\ UNCHANGED lock
            ELSE /\ procs' = [procs EXCEPT ![p] =
                        [Idle EXCEPT !.op = "approve", !.pc = "write", !.b = b,
                                     !.ver = bookings[b].version,
                                     !.acq = (out = "acquired")]]
                 /\ lock' = Acquire(lock, bookings[b].property_id, p, out)

\* bookings.py 215-222: the ORM flush (UPDATE ... WHERE id = b) and the unlock.
approve_booking_write(p) ==
  LET me == procs[p] IN
  /\ me.op = "approve" /\ me.pc = "write"
  /\ Commit(ApproveWrite(bookings, me.b, me.ver, clock))
  /\ lock' = Release(lock, bookings[me.b].property_id, p, me.acq)
  /\ procs' = [procs EXCEPT ![p] = Done("approve_200", me.b)]
  /\ UNCHANGED <<counters, properties, clock, piStatus, stripeOn>>

\* -------------------------------------------------------- decline_booking
\* bookings.py 250-252
DeclineWrite(bks, b, ver) ==
  [bks EXCEPT ![b].status = "declined", ![b].cancel_reason = "declined",
              ![b].version = ver + 1]

\* bookings.py 238-247: load, authorise, check the status.
decline_booking(p, user, b) ==
  /\ Free(p)
  /\ UNCHANGED <<counters, properties, clock, lock, piStatus, stripeOn>>
  /\ NoCommit
  /\ procs' = [procs EXCEPT ![p] =
       IF ~require_landlord(user) THEN Done("403", 0)
       ELSE IF b \notin Ids THEN Done("404", 0)
       ELSE IF properties[bookings[b].property_id].owner_id # user
            THEN Done("403", 0)
       ELSE IF bookings[b].status # "requested" THEN Done("400_not_requested", 0)
       ELSE [Idle EXCEPT !.op = "decline", !.pc = "write", !.b = b,
                         !.ver = bookings[b].version]]

\* bookings.py 249-256: the ORM flush.
decline_booking_write(p) ==
  LET me == procs[p] IN
  /\ me.op = "decline" /\ me.pc = "write"
  /\ Commit(DeclineWrite(bookings, me.b, me.ver))
  /\ procs' = [procs EXCEPT ![p] = Done("decline_200", me.b)]
  /\ UNCHANGED <<counters, properties, clock, lock, piStatus, stripeOn>>

\* --------------------------------------------------------- cancel_booking
\* CancelNoop without 'declined': a declined booking could be cancelled.
CancelNoop_without_declined == {"cancelled", "cancelled_expired"}

\* bookings.py 288: the statuses cancel leaves alone.
CancelNoop == {"cancelled", "cancelled_expired", "declined"}

\* MayCancel that lets a tenant cancel any tenant's booking.
MayCancel_any_tenant(user, row) ==
  user \in Tenants \/ properties[row.property_id].owner_id = user

\* bookings.py 276-285: tenant: own booking; landlord: booking of own property.
MayCancel(user, row) ==
  IF user \in Tenants THEN row.guest_id = user
  ELSE properties[row.property_id].owner_id = user

\* bookings.py 289-291: the flush sets the columns whose loaded value changed.
CancelWrite(bks, b, ver, reason) ==
  [bks EXCEPT ![b].status = "cancelled",
              ![b].cancel_reason = IF reason = NoReason THEN "cancelled" ELSE @,
              ![b].version = ver + 1]

\* bookings.py 272-288 and 300: load, authorise; a no-op returns the row.
cancel_booking(p, user, b) ==
  /\ Free(p)
  /\ UNCHANGED <<counters, properties, clock, lock, piStatus, stripeOn>>
  /\ NoCommit
  /\ procs' = [procs EXCEPT ![p] =
       IF b \notin Ids THEN Done("404", 0)
       ELSE IF ~MayCancel(user, bookings[b]) THEN Done("403", 0)
       ELSE IF bookings[b].status \in CancelNoop THEN Done("cancel_200_unchanged", b)
       ELSE [Idle EXCEPT !.op = "cancel", !.pc = "write", !.b = b,
                         !.ver = bookings[b].version,
                         !.reason = bookings[b].cancel_reason]]

\* bookings.py 292-300: the ORM flush.
cancel_booking_write(p) ==
  LET me == procs[p] IN
  /\ me.op = "cancel" /\ me.pc = "write"
  /\ Commit(CancelWrite(bookings, me.b, me.ver, me.reason))
  /\ procs' = [procs EXCEPT ![p] = Done("cancel_200", me.b)]
  /\ UNCHANGED <<counters, properties, clock, lock, piStatus, stripeOn>>

\* ------------------------------------------------------- get_payment_info
\* payments.py 172-173: the replacement of a canceled intent, flushed by id.
ReplaceIntent(bks, b, pi, ver) ==
  [bks EXCEPT ![b].payment_intent_id = pi, ![b].version = ver + 1]

\* payments.py 118-138, 154: load, authorise, status and expiry guards.
get_payment_info(p, user, b) ==
  /\ Free(p)
  /\ UNCHANGED <<counters, properties, clock, lock, piStatus, stripeOn>>
  /\ NoCommit
  /\ procs' = [procs EXCEPT ![p] =
       IF ~require_tenant(user) THEN Done("403", 0)
       ELSE IF b \notin Ids THEN Done("404", 0)
       ELSE IF bookings[b].guest_id # user THEN Done("403", 0)
       ELSE IF bookings[b].status # "pending_payment"
            THEN Done("400_not_pending", 0)
       ELSE IF Lapsed(bookings[b], clock) THEN Done("400_expired", 0)
       ELSE IF bookings[b].payment_intent_id = NoPI
            THEN [Idle EXCEPT !.op = "payment_info", !.pc = "open", !.b = b,
                              !.ver = bookings[b].version]
       ELSE IF stripeOn
            THEN [Idle EXCEPT !.op = "payment_info", !.pc = "inspect", !.b = b,
                              !.ver = bookings[b].version,
                              !.pi = bookings[b].payment_intent_id]
       ELSE Done("200_secret", b)]

\* payments.py 138-149: first intent of the booking; the provider may raise.
get_payment_info_open(p) ==
  LET me == procs[p]
      pi == IntentId(me.b, me.ver)
  IN
  /\ me.op = "payment_info" /\ me.pc = "open"
  /\ UNCHANGED <<counters, properties, clock, lock, stripeOn>>
  /\ \/ /\ piStatus' = OpenIntent(piStatus, pi)
        /\ Commit(SetIntent(bookings, me.b, pi))
        /\ procs' = [procs EXCEPT ![p] = Done("200_secret", me.b)]
     \/ /\ stripeOn
        /\ UNCHANGED piStatus
        /\ NoCommit
        /\ procs' = [procs EXCEPT ![p] = Done("500", 0)]

\* payments.py 154-183: retrieve the intent; canceled: replace it; succeeded:
\* the overlap check before the conditional update.
get_payment_info_inspect(p) ==
  LET me  == procs[p]
      row == bookings[me.b]
      new == IntentId(me.b, me.ver + 1)
  IN
  /\ me.op = "payment_info" /\ me.pc = "inspect"
  /\ UNCHANGED <<counters, properties, clock, lock, stripeOn>>
  /\ \E st \in Retrieve(me.pi) :
       IF st = "canceled"
       THEN /\ piStatus' = OpenIntent(piStatus, new)
            /\ Commit(ReplaceIntent(bookings, me.b, new, me.ver))
            /\ procs' = [procs EXCEPT ![p] = Done("200_secret", me.b)]
       ELSE /\ UNCHANGED piStatus
            /\ NoCommit
            /\ procs' = [procs EXCEPT ![p] =
                 IF st # "succeeded" THEN Done("200_secret", me.b)
                 ELSE IF _has_confirmed_overlap(bookings, row.property_id,
                                                row.start_date, row.end_date)
                      THEN Done("payment_info_409_overlap", me.b)
                 ELSE [me EXCEPT !.pc = "update"]]

\* payments.py 184-205: the conditional update; "Booking already paid" is
\* raised whether or not a row was updated.
get_payment_info_update(p) ==
  LET me == procs[p] IN
  /\ me.op = "payment_info" /\ me.pc = "update"
  /\ Commit(FinalizeUpdate(bookings, me.b, me.ver))
  /\ procs' = [procs EXCEPT ![p] = Done("400_already_paid", me.b)]
  /\ UNCHANGED <<counters, properties, clock, lock, piStatus, stripeOn>>

\* ------------------------------------------------------- finalize_payment
\* payments.py 230-261: load, authorise, status and expiry guards.
finalize_payment(p, user, b) ==
  /\ Free(p)
  /\ UNCHANGED <<counters, properties, clock, lock, piStatus, stripeOn>>
  /\ NoCommit
  /\ procs' = [procs EXCEPT ![p] =
       IF ~require_tenant(user) THEN Done("403", 0)
       ELSE IF b \notin Ids THEN Done("404", 0)
       ELSE IF bookings[b].guest_id # user THEN Done("403", 0)
       ELSE IF bookings[b].status = "confirmed" THEN Done("finalize_200_confirmed", b)
       ELSE IF bookings[b].status # "pending_payment"
            THEN Done("400_not_pending", 0)
       ELSE IF Lapsed(bookings[b], clock) THEN Done("400_expired", 0)
       ELSE IF ~stripeOn THEN Done("stripe_disabled", 0)
       ELSE IF bookings[b].payment_intent_id = NoPI
            THEN Done("400_missing_intent", 0)
       ELSE [Idle EXCEPT !.op = "finalize", !.pc = "inspect", !.b = b,
                         !.ver = bookings[b].version,
                         !.pi = bookings[b].payment_intent_id]]

\* payments.py 263-272, 301-309: retrieve the intent, then the overlap check.
finalize_payment_inspect(p) ==
  LET me  == procs[p]
      row == bookings[me.b]
  IN
  /\ me.op = "finalize" /\ me.pc = "inspect"
  /\ UNCHANGED <<counters, properties, clock, lock, piStatus, stripeOn>>
  /\ NoCommit
  /\ \E st \in Retrieve(me.pi) :
       procs' = [procs EXCEPT ![p] =
         IF st = "error" THEN Done("400_retrieve", 0)
         ELSE IF st = "canceled" THEN Done("400_canceled", 0)
         ELSE IF st # "succeeded" THEN Done("processing", 0)
         ELSE IF _has_confirmed_overlap(bookings, row.property_id,
                                        row.start_date, row.end_date)
              THEN Done("finalize_409_overlap", me.b)
         ELSE [me EXCEPT !.pc = "update"]]

\* payments.py 275-299: the conditional update; zero rows: re-read.
finalize_payment_update(p) ==
  LET me == procs[p] IN
  /\ me.op = "finalize" /\ me.pc = "update"
  /\ Commit(FinalizeUpdate(bookings, me.b, me.ver))
  /\ procs' = [procs EXCEPT ![p] =
       IF FinalizeRows(bookings, me.b, me.ver) = 1 \/ bookings[me.b].status = "confirmed"
       THEN Done("finalize_200_confirmed", me.b)
       ELSE Done("finalize_409_version", me.b)]
  /\ UNCHANGED <<counters, properties, clock, lock, piStatus, stripeOn>>

\* --------------------------------------------------------- stripe_webhook
\* The verified payment_intent.succeeded events the provider may deliver
\* (and redeliver); offline the endpoint answers before reading the event.
WebhookEvents ==
  IF stripeOn THEN {pi \in DOMAIN piStatus : piStatus[pi] = "succeeded"} ELSE {NoPI}

\* payments.py 372-374: the booking the intent belongs to (.first()), or 0.
BookingOfIntent(bks, pi) ==
  LET hits == {i \in 1..Len(bks) : bks[i].payment_intent_id = pi}
  IN IF hits = {} THEN 0 ELSE CHOOSE i \in hits : \A j \in hits : i <= j

\* payments.py 346-400: lookup by intent, status and expiry guards, overlap.
stripe_webhook(p, pi) ==
  LET b == BookingOfIntent(bookings, pi) IN
  /\ Free(p)
  /\ pi \in WebhookEvents
  /\ UNCHANGED <<counters, properties, clock, lock, piStatus, stripeOn>>
  /\ NoCommit
  /\ procs' = [procs EXCEPT ![p] =
       IF ~stripeOn THEN Done("stripe_disabled", 0)
       ELSE IF b = 0 THEN Done("unknown_intent", 0)
       ELSE IF bookings[b].status = "confirmed" THEN Done("already_confirmed", b)
       ELSE IF bookings[b].status # "pending_payment"
            THEN Done("invalid_status", b)
       ELSE IF Lapsed(bookings[b], clock) THEN Done("expired", b)
       ELSE IF _has_confirmed_overlap(bookings, bookings[b].property_id,
                                      bookings[b].start_date, bookings[b].end_date)
            THEN Done("overlap_conflict", b)
       ELSE [Idle EXCEPT !.op = "webhook", !.pc = "update", !.b = b,
                         !.ver = bookings[b].version, !.pi = pi]]

\* payments.py 402-428: the conditional update; zero rows: re-read.
stripe_webhook_update(p) ==
  LET me == procs[p] IN
  /\ me.op = "webhook" /\ me.pc = "update"
  /\ Commit(FinalizeUpdate(bookings, me.b, me.ver))
  /\ procs' = [procs EXCEPT ![p] =
       IF FinalizeRows(bookings, me.b, me.ver) = 1 THEN Done("confirmed", me.b)
       ELSE IF bookings[me.b].status = "confirmed"
            THEN Done("already_confirmed", me.b)
       ELSE Done("version_conflict", me.b)]
  /\ UNCHANGED <<counters, properties, clock, lock, piStatus, stripeOn>>

\* ------------------------------------------------- sweep_expired_bookings
\* Expired with a grace period of one more hold window.
Expired_after_grace(bks, now) ==
  {i \in 1..Len(bks) :
     /\ bks[i].status = "pending_payment"
     /\ bks[i].expires_at # NULL
     /\ bks[i].expires_at + HOLD_MINUTES < now}

\* sweepers.py 35-43: the rows the sweep selects.
Expired(bks, now) ==
  {i \in 1..Len(bks) :
     /\ bks[i].status = "pending_payment"
     /\ bks[i].expires_at # NULL
     /\ bks[i].expires_at < now}

\* SweepWrite that stamps "expired" over a reason the row already carries.
SweepWrite_overwrites_reason(row, ver, reason) ==
  [row EXCEPT !.status = "cancelled_expired",
              !.cancel_reason = "expired",
              !.version = ver + 1]

\* SweepWrite that counts on from the version stored now.
SweepWrite_counting_stored(row, ver, reason) ==
  [row EXCEPT !.status = "cancelled_expired",
              !.cancel_reason = IF reason = NoReason THEN "expired" ELSE @,
              !.version = @ + 1]

\* sweepers.py 51-56: what the sweep writes to a row it loaded.
SweepWrite(row, ver, reason) ==
  [row EXCEPT !.status = "cancelled_expired",
              !.cancel_reason = IF reason = NoReason THEN "expired" ELSE @,
              !.version = ver + 1]

\* sweepers.py 33-43, 59: select; nothing selected: no commit.
sweep_expired_bookings(p) ==
  LET sel == Expired(bookings, clock) IN
  /\ Free(p)
  /\ UNCHANGED <<counters, properties, clock, lock, piStatus, stripeOn>>
  /\ NoCommit
  /\ procs' = [procs EXCEPT ![p] =
       IF sel = {} THEN Done("sweep_0", 0)
       ELSE [Idle EXCEPT !.op = "sweep", !.pc = "commit",
               !.items = {<<i, bookings[i].version, bookings[i].cancel_reason>> : i \in sel}]]

\* sweepers.py 44-59: one flush and commit for the whole batch.
sweep_expired_bookings_commit(p) ==
  LET me == procs[p] IN
  /\ me.op = "sweep" /\ me.pc = "commit"
  /\ Commit([i \in 1..Len(bookings) |->
              IF \E it \in me.items : it[1] = i
              THEN LET it == CHOOSE x \in me.items : x[1] = i
                   IN SweepWrite(bookings[i], it[2], it[3])
              ELSE bookings[i]])
  /\ procs' = [procs EXCEPT ![p] = Done("sweep_n", 0)]
  /\ UNCHANGED <<counters, properties, clock, lock, piStatus, stripeOn>>

\* A failing run that had already committed one of its rows.
sweep_expired_bookings_raise_partial(p) ==
  LET me == procs[p] IN
  /\ me.op = "sweep" /\ me.pc = "commit"
  /\ \E it \in me.items :
       Commit([bookings EXCEPT ![it[1]] = SweepWrite(@, it[2], it[3])])
  /\ procs' = [procs EXCEPT ![p] = Done("sweep_error", 0)]
  /\ UNCHANGED <<counters, properties, clock, lock, piStatus, stripeOn>>

\* sweepers.py 60-63 and main.py 31-34: the flush or the commit raises; the
\* session is rolled back, the loop swallows the exception and sleeps.
sweep_expired_bookings_raise(p) ==
  LET me == procs[p] IN
  /\ me.op = "sweep" /\ me.pc = "commit"
  /\ NoCommit
  /\ procs' = [procs EXCEPT ![p] = Done("sweep_error", 0)]
  /\ UNCHANGED <<counters, properties, clock, lock, piStatus, stripeOn>>

\* ------------------------------------------------------------ rate_limit
\* rate_limit.py 89-113, _dependency for one scope. A key that does not exist
\* counts 0; INCR creates it without a TTL.
Clients == 1..MaxClients

NoCounter == [n |-> 0, px |-> FALSE]

\* rate_limit.py 96-107
RateAnswer(current) ==
  IF current > RATE_LIMIT_WRITE_PER_WINDOW THEN "429_rate_limited" ELSE "rate_allowed"

\* rate_limit.py 92-93, 96-113: INCR; the first hit of a window goes on to
\* EXPIRE; a Redis error is answered by letting the request through.
rate_limit_incr(p, k) ==
  LET current == counters[k].n + 1 IN
  /\ Free(p)
  /\ UNCHANGED <<properties, clock, lock, piStatus, stripeOn>>
  /\ NoCommit
  /\ \/ /\ counters[k].n < MaxHits
        /\ counters' = [counters EXCEPT ![k].n = current]
        /\ procs' = [procs EXCEPT ![p] =
             IF current = 1
             THEN [Idle EXCEPT !.op = "rate_limit", !.pc = "expire", !.b = k,
                               !.ver = current]
             ELSE Done(RateAnswer(current), k)]
     \/ /\ UNCHANGED counters
        /\ procs' = [procs EXCEPT ![p] = Done("rate_failopen", k)]

\* rate_limit.py 93-95, 110-113: EXPIRE key window after the first INCR; when
\* the call raises, the request is let through and the key keeps no TTL.
rate_limit_expire(p) ==
  LET me == procs[p] IN
  /\ me.op = "rate_limit" /\ me.pc = "expire"
  /\ UNCHANGED <<properties, clock, lock, piStatus, stripeOn>>
  /\ NoCommit
  /\ \/ /\ counters' = [counters EXCEPT ![me.b].px = (counters[me.b].n > 0)]
        /\ procs' = [procs EXCEPT ![p] = Done(RateAnswer(me.ver), me.b)]
     \/ /\ UNCHANGED counters
        /\ procs' = [procs EXCEPT ![p] = Done("rate_failopen", me.b)]

\* The window ends: Redis deletes a key whose TTL ran out.
CounterExpire(k) ==
  /\ counters[k].n > 0
  /\ counters[k].px
  /\ counters' = [counters EXCEPT ![k] = NoCounter]
  /\ UNCHANGED <<properties, bookings, procs, clock, lock, piStatus, stripeOn, confirms>>

\* --------------------------------------------------------- specifications
InitWith(approval, stripe) ==
  /\ properties = [i \in PropertyIds |->
                     [owner_id |-> "l1", price_cents |-> 100,
                      requires_approval |-> approval]]
  /\ bookings = <<>>
  /\ procs = [p \in Procs |-> Idle]
  /\ clock = 0
  /\ lock = [pid \in PropertyIds |-> 0]
  /\ piStatus = <<>>
  /\ stripeOn = stripe
  /\ confirms = [i \in 1..MaxBookings |-> 0]
  /\ counters = [k \in Clients |-> NoCounter]

Init == \E approval \in BOOLEAN, stripe \in BOOLEAN : InitWith(approval, stripe)

\* The table is bounded: no create gets past its overlap check once `rows`
\* rows exist or are on their way.
Room(rows) == Len(bookings) + Creating < rows

Bounded(p, rows) == procs'[p].pc = "insert" => Room(rows)

\* The requests slot p may start on a table of at most `rows` rows, bookings
\* being asked for the days in `days`.
Begin(p, rows, days) ==
  \/ \E pid \in PropertyIds \cup {2}, guest \in Guests, s \in days, e \in days :
       create_booking(p, pid, guest, s, e) /\ Bounded(p, rows)
  \/ \E u \in Users, b \in 1..rows : approve_booking(p, u, b)
  \/ \E u \in Users, b \in 1..rows : decline_booking(p, u, b)
  \/ \E u \in Users, b \in 1..rows : cancel_booking(p, u, b)
  \/ \E u \in Users, b \in 1..rows : get_payment_info(p, u, b)
  \/ \E u \in Users, b \in 1..rows : finalize_payment(p, u, b)
  \/ \E pi \in WebhookEvents : stripe_webhook(p, pi)
  \/ sweep_expired_bookings(p)

\* The later steps of the request in slot p.
Continue(p) ==
  \/ create_booking_insert(p)
  \/ create_booking_intent(p)
  \/ approve_booking_write(p)
  \/ decline_booking_write(p)
  \/ cancel_booking_write(p)
  \/ get_payment_info_open(p)
  \/ get_payment_info_inspect(p)
  \/ get_payment_info_update(p)
  \/ finalize_payment_inspect(p)
  \/ finalize_payment_update(p)
  \/ stripe_webhook_update(p)
  \/ sweep_expired_bookings_commit(p)

\* Clock, provider and key expiry.
Environment ==
  \/ \E pid \in PropertyIds : LockExpire(pid)
  \/ \E pi \in DOMAIN piStatus : PaymentSucceeds(pi)
  \/ Tick

\* One worker: requests are served one at a time, on up to MaxBookings rows.
Next ==
  \/ Begin(1, MaxBookings, Dates)
  \/ Continue(1)
  \/ Environment

Spec == Init /\ [][Next]_vars

\* MaxProcs workers: every handler may interleave with every other, on up to
\* MaxRaceRows rows, all asked for the same nights.
NextRace ==
  \/ \E p \in Procs : Begin(p, MaxRaceRows, {1, MaxDate})
  \/ \E p \in Procs : Continue(p)
  \/ Environment

SpecRace == Init /\ [][NextRace]_vars

\* MaxProcs workers creating and paying instant bookings (Stripe on), on up to
\* MaxBookings rows: the payment paths of two holds may interleave.
NextPair ==
  \/ \E p \in Procs, guest \in Guests, s \in Dates, e \in Dates :
       create_booking(p, 1, guest, s, e) /\ Bounded(p, MaxBookings)
  \/ \E p \in Procs : create_booking_insert(p)
  \/ \E p \in Procs : create_booking_intent(p)
  \/ \E p \in Procs, b \in 1..MaxBookings : finalize_payment(p, "t1", b)
  \/ \E p \in Procs : finalize_payment_inspect(p)
  \/ \E p \in Procs : finalize_payment_update(p)
  \/ \E p \in Procs, pi \in WebhookEvents : stripe_webhook(p, pi)
  \/ \E p \in Procs : stripe_webhook_update(p)
  \/ \E pi \in DOMAIN piStatus : PaymentSucceeds(pi)
  \/ Tick

SpecPair == InitWith(FALSE, TRUE) /\ [][NextPair]_vars

\* The sweeper thread of main.py in slot MaxProcs beside one request worker:
\* the thread loops for ever (sweep, sleep, sweep ...), so a run that can start
\* does start and a started run reaches its commit.
NextSweeper ==
  \/ Begin(1, MaxRaceRows, {1, MaxDate})
  \/ Continue(1)
  \/ Environment
  \/ sweep_expired_bookings(MaxProcs)
  \/ sweep_expired_bookings_commit(MaxProcs)

SpecSweeper ==
  /\ Init
  /\ [][NextSweeper]_vars
  /\ WF_vars(sweep_expired_bookings(MaxProcs))
  /\ WF_vars(sweep_expired_bookings_commit(MaxProcs))

\* MaxProcs workers creating and paying one instant booking, Stripe on or off,
\* beside a provider that may settle or cancel each PaymentIntent.
NextProvider ==
  \/ \E p \in Procs, guest \in Guests :
       create_booking(p, 1, guest, 1, MaxDate) /\ Bounded(p, MaxRaceRows)
  \/ \E p \in Procs : create_booking_insert(p)
  \/ \E p \in Procs : create_booking_intent(p)
  \/ \E p \in Procs, b \in 1..MaxRaceRows : get_payment_info(p, "t1", b)
  \/ \E p \in Procs : get_payment_info_open(p)
  \/ \E p \in Procs : get_payment_info_inspect(p)
  \/ \E p \in Procs : get_payment_info_update(p)
  \/ \E p \in Procs, b \in 1..MaxRaceRows : finalize_payment(p, "t1", b)
  \/ \E p \in Procs : finalize_payment_inspect(p)
  \/ \E p \in Procs : finalize_payment_update(p)
  \/ \E p \in Procs, pi \in WebhookEvents : stripe_webhook(p, pi)
  \/ \E p \in Procs : stripe_webhook_update(p)
  \/ \E pi \in DOMAIN piStatus : PaymentSucceeds(pi)
  \/ \E pi \in DOMAIN piStatus : PaymentCanceled(pi)
  \/ Tick

SpecProvider ==
  /\ \E stripe \in BOOLEAN : InitWith(FALSE, stripe)
  /\ [][NextProvider]_vars

\* One request worker asked for every range of days, beside the sweeper
\* thread and a provider that may also cancel PaymentIntents: every handler,
\* handle replacement included, takes its turn on the booking.
NextLifecycle ==
  \/ Begin(1, MaxRaceRows, Dates)
  \/ Continue(1)
  \/ Environment
  \/ \E pi \in DOMAIN piStatus : PaymentCanceled(pi)
  \/ sweep_expired_bookings(MaxProcs)
  \/ sweep_expired_bookings_commit(MaxProcs)

SpecLifecycle == Init /\ [][NextLifecycle]_vars

\* The sweeper thread in slot MaxProcs, whose runs may fail, beside one worker
\* that creates and cancels holds on up to MaxBookings rows. The thread loops
\* for ever: a run that can start does start, and a started run ends.
NextFaultySweep ==
  \/ \E guest \in Guests, s \in Dates, e \in Dates :
       create_booking(1, 1, guest, s, e) /\ Bounded(1, MaxBookings)
  \/ create_booking_insert(1)
  \/ create_booking_intent(1)
  \/ \E u \in Users, b \in 1..MaxBookings : cancel_booking(1, u, b)
  \/ cancel_booking_write(1)
  \/ \E pid \in PropertyIds : LockExpire(pid)
  \/ Tick
  \/ sweep_expired_bookings(MaxProcs)
  \/ sweep_expired_bookings_commit(MaxProcs)
  \/ sweep_expired_bookings_raise(MaxProcs)

SpecFaultySweep ==
  /\ \E stripe \in BOOLEAN : InitWith(FALSE, stripe)
  /\ [][NextFaultySweep]_vars
  /\ WF_vars(sweep_expired_bookings(MaxProcs))
  /\ WF_vars(sweep_expired_bookings_commit(MaxProcs)
             \/ sweep_expired_bookings_raise(MaxProcs))

\* Two workers that create and approve under the per-property key, which
\* Redis expires PX ttl_ms after it was set whatever its holder does: a
\* holder may stall at any step, the expiry of a set key always comes.
NextLockTtl ==
  \/ \E p \in Procs, pid \in PropertyIds, guest \in Guests :
       \E s \in {1, MaxDate}, e \in {1, MaxDate} :
         create_booking(p, pid, guest, s, e) /\ Bounded(p, MaxRaceRows)
  \/ \E p \in Procs : create_booking_insert(p)
  \/ \E p \in Procs : create_booking_intent(p)
  \/ \E p \in Procs, u \in Users, b \in 1..MaxRaceRows : approve_booking(p, u, b)
  \/ \E p \in Procs : approve_booking_write(p)
  \/ \E pid \in PropertyIds : LockExpire(pid)

SpecLockTtl ==
  /\ Init
  /\ [][NextLockTtl]_vars
  /\ \A pid \in PropertyIds : WF_vars(LockExpire(pid))

\* The two overlap queries on their own. The stored table is any table of at
\* most MaxBookings rows over two listings (both requiring approval, Stripe
\* off), each row as the handlers leave a row of its status: created
\* requested, then declined, or approved at time 0 and given its handle, then
\* confirmed, cancelled or swept.
Listings == PropertyIds \cup {2}

Statuses ==
  {"requested", "pending_payment", "confirmed", "cancelled",
   "cancelled_expired", "declined"}

StoredRow(i, pid, s, e, st) ==
  LET req  == Booking(pid, "t1", s, e, "requested", 100 * (e - s), NULL)
      held == SetIntent(ApproveWrite(<<req>>, 1, 1, 0), 1, <<i, 0>>)
  IN CASE st = "requested"         -> req
       [] st = "declined"          -> DeclineWrite(<<req>>, 1, 1)[1]
       [] st = "pending_payment"   -> held[1]
       [] st = "confirmed"         -> FinalizeUpdate(held, 1, 2)[1]
       [] st = "cancelled"         -> CancelWrite(held, 1, 2, NoReason)[1]
       [] st = "cancelled_expired" -> SweepWrite(held[1], 2, NoReason)

StoredTables ==
  LET Cols == Listings \X Dates \X Dates \X Statuses
      Ok   == {c \in Cols : c[2] < c[3]}
  IN UNION {[1..n -> Ok] : n \in 0..MaxBookings}

InitOverlap ==
  /\ properties = [i \in Listings |->
                     [owner_id |-> "l1", price_cents |-> 100,
                      requires_approval |-> TRUE]]
  /\ \E t \in StoredTables :
       bookings = [i \in DOMAIN t |-> StoredRow(i, t[i][1], t[i][2], t[i][3], t[i][4])]
  /\ procs = [p \in Procs |-> Idle]
  /\ clock = 0
  /\ lock = [pid \in PropertyIds |-> 0]
  /\ piStatus = <<>>
  /\ stripeOn = FALSE
  /\ confirms = [i \in 1..MaxBookings |->
                   IF i \in Ids /\ bookings[i].status = "confirmed" THEN 1 ELSE 0]
  /\ counters = [k \in Clients |-> NoCounter]

\* One call of a checker on the stored table; the slot keeps the arguments
\* and the answer.
Answer(op, found, pid, s, e) ==
  [Done(IF found THEN "overlap" ELSE "free", pid)
     EXCEPT !.op = op, !.s = s, !.e = e]

has_overlap_call(p, pid, s, e) ==
  /\ Free(p)
  /\ s < e
  /\ procs' = [procs EXCEPT ![p] =
        Answer("_has_overlap", _has_overlap(bookings, pid, s, e), pid, s, e)]
  /\ UNCHANGED <<counters, properties, bookings, clock, lock, piStatus, stripeOn, confirms>>

has_confirmed_overlap_call(p, pid, s, e) ==
  /\ Free(p)
  /\ s < e
  /\ procs' = [procs EXCEPT ![p] =
        Answer("_has_confirmed_overlap",
               _has_confirmed_overlap(bookings, pid, s, e), pid, s, e)]
  /\ UNCHANGED <<counters, properties, bookings, clock, lock, piStatus, stripeOn, confirms>>

NextOverlap ==
  \/ \E pid \in Listings, s \in Dates, e \in Dates : has_overlap_call(1, pid, s, e)
  \/ \E pid \in Listings, s \in Dates, e \in Dates :
       has_confirmed_overlap_call(1, pid, s, e)

SpecOverlap == InitOverlap /\ [][NextOverlap]_vars

\* The limiter alone: MaxProcs workers answering requests of MaxClients
\* addresses. A request that got past INCR goes on to its EXPIRE call (which
\* may raise), and Redis deletes a key when its TTL has run out.
NextRateLimit ==
  \/ \E p \in Procs, k \in Clients : rate_limit_incr(p, k)
  \/ \E p \in Procs : rate_limit_expire(p)
  \/ \E k \in Clients : CounterExpire(k)

SpecRateLimit ==
  /\ Init
  /\ [][NextRateLimit]_vars
  /\ \A p \in Procs : WF_vars(rate_limit_expire(p))
  /\ \A k \in Clients : WF_vars(CounterExpire(k))

\* ------------------------------------------------------------------ claims
\* C1: in every reachable state any two distinct confirmed bookings of one
\* property have non-overlapping half-open ranges [start_date, end_date).
C1_ConfirmedNeverOverlap ==
  \A i \in Ids, j \in Ids :
    (/\ i # j
     /\ bookings[i].property_id = bookings[j].property_id
     /\ bookings[i].status = "confirmed"
     /\ bookings[j].status = "confirmed")
    => ~RangesOverlap(bookings[i], bookings[j].start_date, bookings[j].end_date)

\* C2: no reservation ever makes the transition into 'confirmed' twice.
C2_ConfirmedAtMostOnce == \A i \in Ids : confirms[i] <= 1

\* The request in slot p is answered by this step.
Answers(p) == procs[p].pc \notin {"idle", "done"} /\ procs'[p].pc = "done"

\* What a Finalize entry point may answer for a reservation that is already
\* confirmed: the confirmed booking, "already paid" from the poll, or a failure
\* of the provider call.
FinalizeAgainAnswers ==
  {"finalize_200_confirmed", "already_confirmed", "400_already_paid",
   "400_retrieve", "200_secret"}

\* C3: a Finalize invocation that read the reservation as pending_payment and
\* finds it confirmed by another invocation changes nothing and answers with
\* the already-confirmed state, never with a conflict.
C3_SecondFinalizeIsNoop ==
  [][\A p \in Procs :
       (/\ procs[p].op \in {"finalize", "payment_info", "webhook"}
        /\ procs[p].pc \in {"inspect", "update"}
        /\ Answers(p)
        /\ bookings[procs[p].b].status = "confirmed")
       => /\ bookings' = bookings
          /\ procs'[p].res \in FinalizeAgainAnswers]_vars

\* C4: every step that commits status = confirmed is taken strictly before
\* the reservation's expires_at.
C4_NeverConfirmedPastDeadline ==
  [][\A i \in Ids :
       (bookings[i].status # "confirmed" /\ bookings'[i].status = "confirmed")
       => (bookings[i].expires_at # NULL /\ clock < bookings[i].expires_at)]_vars

\* C5: once a reservation is confirmed no step changes its status or version.
C5_ConfirmedIsTerminal ==
  [][\A i \in Ids :
       bookings[i].status = "confirmed"
       => /\ bookings'[i].status = "confirmed"
          /\ bookings'[i].version = bookings[i].version]_vars

\* The edges of the booking state machine.
LegalEdges ==
  {<<"requested", "pending_payment">>, <<"requested", "declined">>,
   <<"requested", "cancelled">>, <<"pending_payment", "confirmed">>,
   <<"pending_payment", "cancelled_expired">>, <<"pending_payment", "cancelled">>}

\* C6: every change of a reservation's status follows a legal edge; the
\* statuses cancelled, cancelled_expired and declined are never left.
C6_OnlyLegalEdges ==
  [][\A i \in Ids :
       bookings'[i].status # bookings[i].status
       => <<bookings[i].status, bookings'[i].status>> \in LegalEdges]_vars

\* The version of row i the request in slot p read, 0 if it read none.
ReadVersion(p, i) ==
  IF procs[p].op = "sweep"
  THEN IF \E it \in procs[p].items : it[1] = i
       THEN (CHOOSE it \in procs[p].items : it[1] = i)[2] ELSE 0
  ELSE IF procs[p].b = i /\ procs[p].pc \notin {"idle", "done", "insert"}
       THEN procs[p].ver ELSE 0

\* C7: a step that changes the status or the version of a stored reservation
\* is taken by a request whose read version is the stored version: no write
\* lands on a row that changed since the writer read it.
C7_WritesAreConditionalOnVersion ==
  [][\A i \in Ids :
       (\/ bookings'[i].status # bookings[i].status
        \/ bookings'[i].version # bookings[i].version)
       => \E p \in Procs :
            /\ procs'[p] # procs[p]
            /\ ReadVersion(p, i) = bookings[i].version]_vars

\* C8: cancel by an authorised caller on a booking already cancelled, declined
\* or cancelled_expired answers with the row and leaves the table (status,
\* version, cancel_reason) as it was.
C8_CancelIsIdempotent ==
  [][\A p \in Procs :
       (procs'[p].op = "cancel" \/ procs'[p].res = "cancel_200_unchanged")
       => \A u \in Users, b \in Ids :
            (/\ bookings[b].status \in {"cancelled", "declined", "cancelled_expired"}
             /\ MayCancel(u, bookings[b])
             /\ cancel_booking(p, u, b))
            => /\ bookings' = bookings
               /\ procs'[p] = Done("cancel_200_unchanged", b)]_vars

\* A cancel answered a booking that an earlier cancel had cancelled: the row
\* still carries the first cancel's version and reason.
C8_CancelledTwice ==
  \E p \in Procs :
    /\ procs[p].res = "cancel_200_unchanged"
    /\ bookings[procs[p].b].status = "cancelled"
    /\ bookings[procs[p].b].cancel_reason = "cancelled"
    /\ bookings[procs[p].b].version = 2

\* C9: the row a successful create inserts has version 1; on an instant
\* property it is pending_payment with expires_at = now + HOLD_MINUTES and the
\* handler goes on to answer next_action 'pay'; on a property that requires
\* approval it is requested with no expires_at and no payment intent, and the
\* answer is next_action 'await_approval'.
C9_CreatedRow ==
  [][\A p \in Procs :
       (procs[p].op = "create" /\ procs[p].pc = "insert" /\ procs'[p] # procs[p])
       => LET id  == Len(bookings) + 1
              row == bookings'[id]
          IN /\ Len(bookings') = id
             /\ row.version = 1
             /\ IF properties[row.property_id].requires_approval
                THEN /\ row.status = "requested"
                     /\ row.expires_at = NULL
                     /\ row.payment_intent_id = NoPI
                     /\ procs'[p] = Done("201_await_approval", id)
                ELSE /\ row.status = "pending_payment"
                     /\ row.expires_at # NULL
                     /\ row.expires_at = clock + HOLD_MINUTES
                     /\ procs'[p].pc = "intent"
                     /\ procs'[p].b = id]_vars

\* A create was answered with next_action 'pay' after the clock had moved: the
\* hold runs from the later creation time.
C9_CreatedLater ==
  \E p \in Procs :
    /\ procs[p].res = "201_pay"
    /\ bookings[procs[p].b].status = "pending_payment"
    /\ bookings[procs[p].b].version = 1
    /\ bookings[procs[p].b].expires_at = 1 + HOLD_MINUTES

\* A confirmed booking of property pid shares a night with [s, e).
ConfirmedNightTaken(pid, s, e) ==
  \E i \in Ids :
    /\ bookings[i].property_id = pid
    /\ bookings[i].status = "confirmed"
    /\ bookings[i].start_date < e
    /\ s < bookings[i].end_date

\* C10: a valid create that reaches the overlap check is answered 409 exactly
\* when a confirmed booking of the property shares a night with the requested
\* range (rows in other statuses and ranges that merely touch do not count);
\* a rejected create inserts nothing and an accepted one goes on to insert.
C10_CreateConflictIffConfirmedOverlap ==
  [][\A p \in Procs :
       (procs'[p].pc = "insert" \/ procs'[p].res \in {"create_409_overlap", "500_runtime"})
       => \A pid \in PropertyIds, g \in Guests, s \in Dates, e \in Dates :
            (/\ s < e
             /\ create_booking(p, pid, g, s, e)
             /\ ~(lock[pid] # 0 /\ lock' = lock /\ procs'[p].res = "500_runtime"))
            => /\ bookings' = bookings
               /\ IF ConfirmedNightTaken(pid, s, e)
                  THEN procs'[p] = Done("create_409_overlap", 0)
                  ELSE procs'[p].op = "create" /\ procs'[p].pc = "insert"]_vars

\* A create was rejected although the table also holds a row that is not
\* confirmed.
C10_RejectedByConfirmedOnly ==
  /\ \E p \in Procs : procs[p].res = "create_409_overlap"
  /\ \E i \in Ids : bookings[i].status = "confirmed"
  /\ \E i \in Ids : bookings[i].status # "confirmed"

\* Another booking of b's property is confirmed for a night of b's range.
RivalConfirmed(b) ==
  \E i \in Ids \ {b} :
    /\ bookings[i].property_id = bookings[b].property_id
    /\ bookings[i].status = "confirmed"
    /\ bookings[i].start_date < bookings[b].end_date
    /\ bookings[b].start_date < bookings[i].end_date

\* The hold b can still be paid: pending_payment and not lapsed.
LiveHold(b) ==
  /\ b \in Ids
  /\ bookings[b].status = "pending_payment"
  /\ ~Lapsed(bookings[b], clock)

\* C11: when an entry point of Finalize reaches its overlap check for a live
\* hold whose payment succeeded while a rival booking is confirmed, the table
\* is left as it is; the webhook answers overlap_conflict, finalize_payment and
\* get_payment_info answer 409.
C11_RivalBlocksFinalize ==
  [][\A p \in Procs :
       procs'[p] # procs[p]
       => /\ \A pi \in DOMAIN piStatus :
               (/\ piStatus[pi] = "succeeded"
                /\ LiveHold(BookingOfIntent(bookings, pi))
                /\ RivalConfirmed(BookingOfIntent(bookings, pi))
                /\ stripe_webhook(p, pi))
               => /\ bookings' = bookings
                  /\ procs'[p].res = "overlap_conflict"
          /\ (/\ procs[p].pc = "inspect"
              /\ procs[p].pi \in DOMAIN piStatus
              /\ piStatus[procs[p].pi] = "succeeded"
              /\ bookings[procs[p].b].status = "pending_payment"
              /\ RivalConfirmed(procs[p].b)
              /\ procs'[p].res \notin {"400_retrieve", "200_secret"})
             => /\ bookings' = bookings
                /\ procs'[p].res = IF procs[p].op = "finalize"
                                   THEN "finalize_409_overlap"
                                   ELSE "payment_info_409_overlap"]_vars

\* The poll was answered 409 for a hold that is still pending_payment beside
\* a confirmed rival.
C11_PollRejected ==
  \E p \in Procs :
    /\ procs[p].res \in {"finalize_409_overlap", "payment_info_409_overlap"}
    /\ bookings[procs[p].b].status = "pending_payment"
    /\ bookings[procs[p].b].version = 1
    /\ RivalConfirmed(procs[p].b)

\* The sweep in slot p commits in this step.
SweepCommits(p) ==
  procs[p].op = "sweep" /\ procs[p].pc = "commit" /\ procs'[p].pc = "done"

\* C12: a row the sweeper's commit changes is, at that commit, pending_payment
\* with expires_at strictly before the current time.
C12_SweeperChangesOnlyExpiredHolds ==
  [][\A p \in Procs :
       SweepCommits(p)
       => \A i \in Ids :
            bookings'[i] # bookings[i]
            => /\ bookings[i].status = "pending_payment"
               /\ bookings[i].expires_at # NULL
               /\ bookings[i].expires_at < clock]_vars

\* Row i is stored as the sweep in slot p selected it: nothing was written to
\* it since.
AsSelected(p, i) ==
  \E it \in procs[p].items :
    /\ it[1] = i
    /\ bookings[i].status = "pending_payment"
    /\ bookings[i].version = it[2]
    /\ bookings[i].cancel_reason = it[3]

\* The holds whose deadline is in the past.
PastDeadline ==
  {i \in Ids : /\ bookings[i].status = "pending_payment"
               /\ bookings[i].expires_at # NULL
               /\ bookings[i].expires_at < clock}

\* C14: a sweeper run selects every hold whose deadline is in the past (and
\* ends at once only if there is none); committing on the rows as it selected
\* them it leaves each cancelled_expired, version + 1, cancel_reason "expired"
\* unless the row had a reason, and every other column as it was.
C14_SweepResult ==
  [][\A p \in Procs :
       /\ (procs'[p].res = "sweep_0" /\ procs'[p] # procs[p]) => PastDeadline = {}
       /\ (procs'[p].op = "sweep" /\ procs[p].op # "sweep")
          => {it[1] : it \in procs'[p].items} = PastDeadline
       /\ SweepCommits(p)
          => \A i \in Ids :
               AsSelected(p, i)
               => bookings'[i] =
                    [bookings[i] EXCEPT
                       !.status = "cancelled_expired",
                       !.cancel_reason =
                          IF bookings[i].cancel_reason = NoReason THEN "expired" ELSE @,
                       !.version = bookings[i].version + 1]]_vars

\* A sweep expired a hold that already carried a reason, and kept it.
C14_SweptKeepingReason ==
  \E p \in Procs, i \in Ids :
    /\ procs[p].res = "sweep_n"
    /\ bookings[i].status = "cancelled_expired"
    /\ bookings[i].cancel_reason = "cancelled"
    /\ bookings[i].version = 3

\* C13: with the sweeper thread running, a hold whose deadline is in the past
\* eventually leaves pending_payment: it is swept, or another operation moves
\* it first.
C13_ExpiredHoldIsSwept ==
  \A i \in 1..MaxRaceRows :
    (i \in PastDeadline) ~> (i \in Ids /\ bookings[i].status # "pending_payment")

\* The sweeper thread expired a hold.
C13_SweptByThread ==
  /\ procs[MaxProcs].res = "sweep_n"
  /\ \E i \in Ids : /\ bookings[i].status = "cancelled_expired"
                    /\ bookings[i].cancel_reason = "expired"

\* Booking b cannot be paid any more: it is requested, cancelled,
\* cancelled_expired or declined, or a hold at or past its deadline.
Unpayable(b) ==
  \/ bookings[b].status \in {"requested", "cancelled", "cancelled_expired", "declined"}
  \/ /\ bookings[b].status = "pending_payment"
     /\ (bookings[b].expires_at = NULL \/ bookings[b].expires_at <= clock)

\* C15: a reconciliation request that finds the booking unpayable ends at once
\* and leaves the table as it was; get_payment_info and finalize_payment answer
\* 400, the webhook acknowledges with invalid_status or expired.
C15_UnpayableIsLeftAlone ==
  [][\A p \in Procs :
       (Free(p) /\ procs'[p] # procs[p])
       => \A b \in Ids :
            Unpayable(b)
            => /\ \A u \in Tenants :
                    (bookings[b].guest_id = u
                     /\ (get_payment_info(p, u, b) \/ finalize_payment(p, u, b)))
                    => /\ bookings' = bookings
                       /\ procs'[p].pc = "done"
                       /\ procs'[p].res \in {"400_not_pending", "400_expired"}
               /\ \A pi \in WebhookEvents :
                    (stripeOn /\ BookingOfIntent(bookings, pi) = b
                     /\ stripe_webhook(p, pi))
                    => /\ bookings' = bookings
                       /\ procs'[p].pc = "done"
                       /\ procs'[p].res \in {"invalid_status", "expired"}]_vars

\* The webhook acknowledged a payment that arrived for a lapsed hold, still
\* stored as pending_payment.
C15_LatePaymentIgnored ==
  \E p \in Procs :
    /\ procs[p].res = "expired"
    /\ bookings[procs[p].b].status = "pending_payment"
    /\ bookings[procs[p].b].expires_at <= clock

\* C16: get_payment_info answers "Booking already paid" only for a booking
\* that is stored as confirmed when it answers.
C16_AlreadyPaidMeansConfirmed ==
  [][\A p \in Procs :
       (procs[p].op = "payment_info" /\ procs'[p].res = "400_already_paid")
       => bookings'[procs[p].b].status = "confirmed"]_vars

\* The case Finalize's conditional update for booking b with read version ver
\* falls in.
FinalizeCase(b, ver) ==
  IF FinalizeRows(bookings, b, ver) = 1 THEN "confirmed"
  ELSE IF bookings[b].status = "confirmed" THEN "already confirmed"
  ELSE "version conflict"

\* The cases an entry point's answer stands for.
AnswerCases(res) ==
  CASE res = "confirmed"              -> {"confirmed"}
    [] res = "already_confirmed"      -> {"already confirmed"}
    [] res = "version_conflict"       -> {"version conflict"}
    [] res = "finalize_409_version"   -> {"version conflict"}
    [] res = "finalize_200_confirmed" -> {"confirmed", "already confirmed"}
    [] res = "400_already_paid"       -> {"confirmed", "already confirmed"}
    [] OTHER                          -> {}

\* C17: at the conditional update the three entry points leave the same row
\* (confirmed with version + 1 if the update matched, untouched otherwise)
\* and their answers name the same case: confirmed, already confirmed, or
\* version conflict.
C17_EntryPointsAgree ==
  [][\A p \in Procs :
       (/\ procs[p].op \in {"payment_info", "finalize", "webhook"}
        /\ procs[p].pc = "update"
        /\ procs'[p].pc = "done")
       => /\ bookings' = FinalizeUpdate(bookings, procs[p].b, procs[p].ver)
          /\ FinalizeCase(procs[p].b, procs[p].ver) \in AnswerCases(procs'[p].res)]_vars

\* The handles opened for booking i that the provider reports succeeded.
PaidHandles(i) ==
  IF stripeOn
  THEN {pi \in DOMAIN piStatus : pi[1] = i /\ piStatus[pi] = "succeeded"}
  ELSE {}

\* The provider reports success for a payment handle of booking i: for the
\* handle a poll in slot p read from the row, or, for the webhook, for a
\* handle of the booking (the one the notification names).
ProviderSucceeded(i) ==
  /\ PaidHandles(i) # {}
  /\ \A p \in Procs :
       (procs[p].op \in {"payment_info", "finalize"} /\ procs'[p] # procs[p])
       => procs[p].pi \in PaidHandles(i)

\* This step stores booking i as confirmed.
Confirms(i) ==
  /\ bookings[i].status = "pending_payment"
  /\ bookings'[i] = [bookings[i] EXCEPT !.status = "confirmed", !.version = @ + 1]

\* The request in slot p, of one of the handlers in ops, takes this step.
StepOf(p, ops) ==
  procs[p].op \in ops /\ procs[p].pc \notin {"idle", "done"} /\ procs'[p] # procs[p]

CreateErrors ==
  {"403", "400_dates", "404", "429_busy", "create_409_overlap", "500", "500_runtime"}

\* C19: a create that answers an error has stored no row: the booking it
\* worked on, if any, is not in the table after the answer.
C19_FailedCreateStoresNothing ==
  [][\A p \in Procs :
       (/\ procs[p].op = "create"
        /\ procs'[p].pc = "done"
        /\ procs'[p].res \in CreateErrors)
       => ~(procs[p].pc = "intent" /\ procs[p].b \in DOMAIN bookings')]_vars

\* The request in slot p went past the lock without holding it (Redis
\* failing): it goes on to its write, or create finds the dates taken.
PastLockWithoutIt(p) ==
  \/ procs'[p].pc \in {"insert", "write"} /\ ~procs'[p].acq
  \/ procs'[p] = Done("create_409_overlap", 0)

\* C20: while another caller holds the lock of the property, a create or an
\* approve that reaches the lock either answers 429 busy, changing no row and
\* leaving the lock with its holder, or (Redis failing) goes on without the
\* lock; and 429 busy is answered only while the lock is held.
C20_HeldLockMeansBusy ==
  [][\A p \in Procs :
       (Free(p) /\ procs'[p] # procs[p])
       => /\ procs'[p].res = "429_busy" => \E pid \in PropertyIds : lock[pid] # 0
          /\ \A pid \in PropertyIds :
               lock[pid] # 0
               => /\ \A g \in Guests, s \in Dates, e \in Dates :
                       (s < e /\ create_booking(p, pid, g, s, e))
                       => /\ lock' = lock
                          /\ bookings' = bookings
                          /\ \/ procs'[p] = Done("429_busy", 0)
                             \/ PastLockWithoutIt(p)
                  /\ \A b \in Ids :
                       (/\ bookings[b].property_id = pid
                        /\ bookings[b].status = "requested"
                        /\ approve_booking(p, properties[pid].owner_id, b))
                       => /\ lock' = lock
                          /\ bookings' = bookings
                          /\ \/ procs'[p] = Done("429_busy", 0)
                             \/ PastLockWithoutIt(p)]_vars

\* The request in slot p is inside the with block without the lock: the
\* lock failed open (get_redis() is None, or r.set raised).
FailedOpen(p) ==
  procs[p].op \in {"create", "approve"} /\ procs[p].pc \notin {"idle", "done"} /\ ~procs[p].acq

\* C21: the lock fails open. A create or approve that enters the critical
\* section without the lock has stored no key; none of its later steps
\* touches the key (no release is attempted), whoever holds it; and a create
\* or approve is turned away at the lock only while the key is held: never
\* because the cache failed.
C21_LockFailsOpen ==
  [][\A p \in Procs :
       /\ (Free(p) /\ procs'[p].pc \in {"insert", "write"} /\ ~procs'[p].acq)
          => lock' = lock
       /\ (FailedOpen(p) /\ procs'[p] # procs[p]) => lock' = lock
       /\ (/\ Free(p)
           /\ procs'[p] # procs[p]
           /\ procs'[p].res \in {"429_busy", "500_runtime"}
           /\ lock' = lock)
          => \E pid \in PropertyIds : lock[pid] # 0]_vars

\* An approve whose lock failed open committed its write while another
\* approve held the key, and the key is still with its holder.
C21_ApprovedBesideHolder ==
  \E p \in Procs, q \in Procs :
    /\ p # q
    /\ procs[q].op = "approve" /\ procs[q].pc = "write" /\ procs[q].acq
    /\ lock[1] = q
    /\ procs[p].res = "approve_200"

\* The answers that reject an approve or a decline.
ReviewRejections == {"403", "404", "400_not_requested"}

\* C22: an approve changes a booking only when the booking is requested and
\* the caller owns its property: the write finds the row requested and makes
\* it pending_payment with expires_at = now + HOLD_MINUTES and version + 1,
\* changing nothing else; an approve of a booking in another status, or by
\* anyone but the owner, is rejected and changes nothing.
C22_ApproveOnlyRequestedByOwner ==
  [][\A p \in Procs :
       /\ (/\ procs[p].op = "approve" /\ procs[p].pc = "write"
           /\ procs'[p] # procs[p]
           /\ bookings' # bookings)
          => /\ bookings[procs[p].b].status = "requested"
             /\ bookings' = [bookings EXCEPT
                               ![procs[p].b].status = "pending_payment",
                               ![procs[p].b].expires_at = clock + HOLD_MINUTES,
                               ![procs[p].b].version = @ + 1]
       /\ (Free(p) /\ procs'[p] # procs[p])
          => \A u \in Users, b \in Ids :
               approve_booking(p, u, b)
               => /\ bookings' = bookings
                  /\ (\/ bookings[b].status # "requested"
                      \/ properties[bookings[b].property_id].owner_id # u)
                     => (procs'[p].pc = "done" /\ procs'[p].res \in ReviewRejections)]_vars

\* C23: a decline changes a booking only when the booking is requested and
\* the caller owns its property: the write finds the row requested, with no
\* deadline, and makes it declined with cancel_reason "declined" and
\* version + 1, changing nothing else; a decline of a booking in another
\* status, or by anyone but the owner, is rejected and changes nothing.
C23_DeclineOnlyRequestedByOwner ==
  [][\A p \in Procs :
       /\ (/\ procs[p].op = "decline" /\ procs[p].pc = "write"
           /\ procs'[p] # procs[p]
           /\ bookings' # bookings)
          => /\ bookings[procs[p].b].status = "requested"
             /\ bookings'[procs[p].b].expires_at = NULL
             /\ bookings' = [bookings EXCEPT
                               ![procs[p].b].status = "declined",
                               ![procs[p].b].cancel_reason = "declined",
                               ![procs[p].b].version = @ + 1]
       /\ (Free(p) /\ procs'[p] # procs[p])
          => \A u \in Users, b \in Ids :
               decline_booking(p, u, b)
               => /\ bookings' = bookings
                  /\ (\/ bookings[b].status # "requested"
                      \/ properties[bookings[b].property_id].owner_id # u)
                     => (procs'[p].pc = "done" /\ procs'[p].res \in ReviewRejections)]_vars

\* The callers the handler op accepts for booking row: its guest or the owner
\* of its property for cancel, the owner for approve and decline, the guest
\* for get_payment_info and finalize_payment.
Authorised(op, row) ==
  CASE op = "cancel" -> {row.guest_id, properties[row.property_id].owner_id}
    [] op \in {"approve", "decline"} -> {properties[row.property_id].owner_id}
    [] OTHER -> {row.guest_id}

\* C24: a cancel, approve, decline, get_payment_info or finalize_payment by a
\* caller the handler does not accept for the booking is answered 403 at once
\* and changes no booking; a caller it accepts is never answered 403.
C24_UnauthorisedChangesNothing ==
  [][\A p \in Procs :
       (Free(p) /\ procs'[p] # procs[p])
       => \A b \in Ids, u \in Users :
            /\ cancel_booking(p, u, b)
               => /\ bookings' = bookings
                  /\ (procs'[p] = Done("403", 0))
                     <=> (u \notin Authorised("cancel", bookings[b]))
            /\ (approve_booking(p, u, b) \/ decline_booking(p, u, b))
               => /\ bookings' = bookings
                  /\ (procs'[p] = Done("403", 0))
                     <=> (u \notin Authorised("approve", bookings[b]))
            /\ (get_payment_info(p, u, b) \/ finalize_payment(p, u, b))
               => /\ bookings' = bookings
                  /\ (procs'[p] = Done("403", 0))
                     <=> (u \notin Authorised("payment_info", bookings[b]))]_vars

\* A caller was answered 403 on an approved hold, which is still
\* pending_payment at the version the approve gave it.
C24_StrangerTurnedAway ==
  \E p \in Procs, b \in Ids :
    /\ procs[p].res = "403"
    /\ bookings[b].status = "pending_payment"
    /\ bookings[b].version = 2
    /\ bookings[b].payment_intent_id = NoPI

\* The columns of a booking that are fixed at creation.
Fixed(row) ==
  <<row.property_id, row.guest_id, row.start_date, row.end_date,
    row.total_cents, row.currency>>

\* C25: a row is inserted with total_cents = price_cents of its property
\* times its nights (end_date - start_date, at least one) in USD; no step
\* changes the property, guest, dates, total or currency of a stored row or
\* removes it; and a create asked for start >= end never gets to its insert.
C25_TotalFixedAtCreation ==
  [][/\ \A i \in Ids :
          i \in DOMAIN bookings' /\ Fixed(bookings'[i]) = Fixed(bookings[i])
     /\ \A i \in DOMAIN bookings' \ Ids :
          /\ bookings'[i].start_date < bookings'[i].end_date
          /\ bookings'[i].currency = "USD"
          /\ bookings'[i].total_cents =
               properties[bookings'[i].property_id].price_cents
                 * (bookings'[i].end_date - bookings'[i].start_date)
     /\ \A p \in Procs :
          (procs'[p].op = "create" /\ procs'[p].pc = "insert")
          => procs'[p].s < procs'[p].e]_vars

\* A two-night booking whose handle was replaced and which was then paid
\* and confirmed: its total is still two nights' price.
C25_TwoNightsPaid ==
  \E i \in Ids :
    /\ bookings[i].end_date - bookings[i].start_date = 2
    /\ bookings[i].status = "confirmed"
    /\ bookings[i].payment_intent_id = <<i, 2>>
    /\ bookings[i].total_cents = 2 * properties[bookings[i].property_id].price_cents

\* C26: expires_at is non-null only on rows that are pending_payment or
\* cancelled_expired: every requested, declined, cancelled (and confirmed)
\* row has expires_at NULL.
C26_DeadlineOnlyOnHolds ==
  \A i \in Ids :
    bookings[i].expires_at # NULL
    => bookings[i].status \in {"pending_payment", "cancelled_expired"}

\* This step attaches the first payment handle of row i and changes nothing
\* else.
FirstAttach(i) ==
  /\ bookings[i].payment_intent_id = NoPI
  /\ bookings'[i] = [bookings[i] EXCEPT !.payment_intent_id =
                       bookings'[i].payment_intent_id]

\* C27: the committed changes of one booking are totally ordered by version:
\* no step lowers the stored version, and every step that changes a stored
\* row (the first attachment of a handle aside) leaves it with a version
\* higher than before, so no two changes carry the same version.
C27_VersionOrdersChanges ==
  [][\A i \in Ids :
       /\ bookings'[i].version >= bookings[i].version
       /\ (bookings'[i] # bookings[i] /\ ~FirstAttach(i))
          => bookings'[i].version > bookings[i].version]_vars

\* C28: a row is inserted with version 1 and every step that changes any
\* column of a stored row, the first attachment of a payment handle included,
\* adds exactly 1 to its version.
C28_EveryChangeBumpsVersion ==
  [][/\ \A i \in DOMAIN bookings' \ Ids : bookings'[i].version = 1
     /\ \A i \in Ids :
          bookings'[i] # bookings[i]
          => bookings'[i].version = bookings[i].version + 1]_vars

\* C29: sweeps are idempotent and safe to duplicate. A swept row is never
\* selected again; and when a sweep commits a row that a concurrent sweep of
\* the same selection has already swept (cancelled_expired, one version above
\* the selected one), the commit leaves the row exactly as it is: one
\* version above the version before the sweeps.
C29_DuplicateSweepIsNoop ==
  [][/\ \A i \in Ids :
          bookings[i].status = "cancelled_expired" => i \notin Expired(bookings, clock)
     /\ \A p \in Procs :
          (procs[p].op = "sweep" /\ procs[p].pc = "commit" /\ procs'[p] # procs[p])
          => \A it \in procs[p].items :
               (/\ bookings[it[1]].status = "cancelled_expired"
                /\ bookings[it[1]].version = it[2] + 1)
               => bookings'[it[1]] = bookings[it[1]]]_vars

\* Two sweeps that selected the same expired hold have both committed: the
\* row is cancelled_expired with reason "expired" at version 2.
C29_SweptTwice ==
  /\ \A p \in Procs : procs[p].res = "sweep_n"
  /\ \E i \in Ids :
       /\ bookings[i].status = "cancelled_expired"
       /\ bookings[i].cancel_reason = "expired"
       /\ bookings[i].version = 2

\* The sweeper thread's last run failed.
SweepFailed == procs[MaxProcs].res = "sweep_error"

\* The sweeper thread's run in progress has selected row i.
SweepSelected(i) ==
  /\ procs[MaxProcs].op = "sweep" /\ procs[MaxProcs].pc = "commit"
  /\ \E it \in procs[MaxProcs].items : it[1] = i

\* C30: a failing sweep is isolated and retried. The step in which a run
\* fails changes no booking (the batch is rolled back whole) and leaves the
\* thread free for its next run; and after a failed run, every hold that is
\* still expired is selected by a later run (unless it stopped being an
\* expired hold in the meantime).
C30_FailedSweepIsRetried ==
  /\ [][(procs[MaxProcs].op = "sweep" /\ procs'[MaxProcs].res = "sweep_error")
        => (bookings' = bookings /\ Free(MaxProcs)')]_vars
  /\ \A i \in 1..MaxBookings :
       (SweepFailed /\ i \in Ids /\ i \in Expired(bookings, clock))
       ~> (SweepSelected(i) \/ i \notin Expired(bookings, clock))

\* The sweeper thread's run has just failed with two expired holds in the
\* table: both are still pending_payment at version 1, to be selected again.
C30_FailedRunChangedNothing ==
  /\ SweepFailed
  /\ Len(bookings) = 2
  /\ \A i \in Ids : i \in Expired(bookings, clock) /\ bookings[i].version = 1

\* The property whose key the create or approve in slot p works under.
KeyOf(p) ==
  IF procs[p].op = "create" /\ procs[p].pc = "insert" THEN procs[p].b
  ELSE bookings[procs[p].b].property_id

\* The request in slot p acquired the key of property pid (SET NX returned
\* true) and is still inside its with block.
Inside(p, pid) ==
  /\ procs[p].op \in {"create", "approve"}
  /\ procs[p].pc \notin {"idle", "done"}
  /\ procs[p].acq
  /\ KeyOf(p) = pid

\* C31 as stated: at any moment at most one caller that acquired the key of
\* a property is inside its critical section.
C31_OneCallerInside ==
  \A pid \in PropertyIds : Cardinality({p \in Procs : Inside(p, pid)}) <= 1

\* C31, amended: acquire returns true through SET NX only while the key is
\* absent, and stores the caller's token: a caller gets in beside another
\* one that acquired the key only after that one's key has expired (the TTL
\* ran out while it was still inside); a caller that is inside and still
\* owns the key is alone inside.
C31_AcquireOnlyAbsentKey ==
  [][\A p \in Procs :
       (Free(p) /\ procs'[p].acq)
       => \A pid \in PropertyIds :
            Inside(p, pid)'
            => /\ lock[pid] = 0
               /\ lock'[pid] = p
               /\ \A q \in Procs \ {p} : Inside(q, pid) => lock[pid] # q]_vars

\* Two approves are inside the critical section of one key: the key of the
\* first expired while it was inside, and the second acquired it.
C31_InsideAfterExpiry ==
  \E p \in Procs, q \in Procs :
    /\ p # q
    /\ Inside(p, 1) /\ Inside(q, 1)
    /\ lock[1] = q

\* C32: release never removes a lock owned by someone else: a step of a
\* request leaves in place every key that holds another caller's token (the
\* key is deleted only when its token is the releasing caller's own), also
\* when the request had acquired that key itself before its TTL ran out.
C32_ReleaseLeavesForeignKey ==
  [][\A p \in Procs : \A pid \in PropertyIds :
       (procs'[p] # procs[p] /\ lock[pid] # 0 /\ lock[pid] # p)
       => lock'[pid] = lock[pid]]_vars

\* An approve finished and released while a second approve, which had loaded
\* the row before the first one wrote it, is inside and still owns the key.
C32_FinishedBesideOwner ==
  \E p \in Procs, q \in Procs :
    /\ p # q
    /\ procs[p].pc = "done" /\ procs[p].res = "approve_200"
    /\ Inside(q, 1) /\ procs[q].op = "approve"
    /\ procs[q].ver < bookings[procs[q].b].version
    /\ lock[1] = q

\* C33: the lock is released on every exit path: once create or approve has
\* returned (success, Conflict, internal failure or an exception raised
\* inside the critical section), the key no longer holds that caller's token.
C33_NoTokenAfterReturn ==
  \A p \in Procs : \A pid \in PropertyIds :
    procs[p].pc = "done" => lock[pid] # p

\* C34: a lock is never held indefinitely: a key that is set is eventually
\* gone again even when its holder stalls or returned without releasing it
\* (its TTL runs out), and a create or approve that arrives while the key is
\* absent is not rejected as busy.
C34_KeyIsEventuallyFree ==
  /\ \A pid \in PropertyIds : (lock[pid] # 0) ~> (lock[pid] = 0)
  /\ [][\A p \in Procs :
          (Free(p) /\ procs'[p] # procs[p] /\ \A pid \in PropertyIds : lock[pid] = 0)
          => ~(procs'[p].res = "500_runtime" /\ lock' = lock)]_vars

\* The key expired under a create that acquired it and is still inside its
\* critical section, after another request had returned without releasing.
C34_ExpiredUnderHolder ==
  \E p \in Procs, q \in Procs :
    /\ Inside(p, 1) /\ procs[p].op = "create"
    /\ procs[q].pc = "done" /\ procs[q].res = "500_runtime"
    /\ lock[1] = 0

\* Row i is a confirmed reservation of listing pid that shares a night with
\* [s, e): some night n has start_date <= n < end_date and s <= n < e.
SharesNight(i, pid, s, e) ==
  /\ bookings[i].property_id = pid
  /\ bookings[i].status = "confirmed"
  /\ \E n \in Dates :
       /\ bookings[i].start_date <= n /\ n < bookings[i].end_date
       /\ s <= n /\ n < e

\* C35: for every listing, every stored table and every range with
\* start < end, _has_overlap and _has_confirmed_overlap return the same
\* result, and it is true exactly when a confirmed reservation of that listing
\* overlaps the half-open range (ranges that only touch do not overlap); rows
\* of other listings and rows that are not confirmed never make it true.
C35_CheckersAgree ==
  /\ \A pid \in Listings, s \in Dates, e \in Dates :
       s < e =>
         /\ _has_overlap(bookings, pid, s, e)
              = _has_confirmed_overlap(bookings, pid, s, e)
         /\ _has_overlap(bookings, pid, s, e)
              <=> \E i \in Ids : SharesNight(i, pid, s, e)
  /\ \A p \in Procs :
       procs[p].op \in {"_has_overlap", "_has_confirmed_overlap"}
       => (procs[p].res = "overlap"
             <=> \E i \in Ids : SharesNight(i, procs[p].b, procs[p].s, procs[p].e))

\* A checker answered false on a table that holds, for the nights asked
\* about, a confirmed stay of the other listing, a hold of the listing
\* itself, or a confirmed stay of the listing that ends where the range starts.
C35_AnsweredFalseBesideOthers ==
  \E p \in Procs :
    /\ procs[p].op = "_has_overlap" /\ procs[p].res = "free"
    /\ Len(bookings) = 2
    /\ \/ /\ bookings[1].property_id # procs[p].b
          /\ SharesNight(1, bookings[1].property_id, procs[p].s, procs[p].e)
       \/ /\ bookings[1].property_id = procs[p].b
          /\ bookings[1].status = "pending_payment"
          /\ RangesOverlap(bookings[1], procs[p].s, procs[p].e)
    /\ bookings[2].property_id = procs[p].b
    /\ bookings[2].status = "confirmed"
    /\ bookings[2].end_date = procs[p].s

\* The idempotency keys sent to the provider for reservation b so far (each
\* key names one remote PaymentIntent), and those the provider invalidated.
KeysUsed(b) == {q \in DOMAIN piStatus : q[1] = b}

Invalidated(b) == {q \in KeysUsed(b) : piStatus[q] = "canceled"}

\* C36: handle-creation calls for one reservation collapse to one remote
\* handle: calls with no invalidation of the handle between them use the same
\* idempotency key, so a reservation whose handles were invalidated n times
\* has had at most n + 1 keys sent for it.
C36_OneKeyPerInvalidation ==
  \A b \in 1..MaxBookings :
    Cardinality(KeysUsed(b)) <= 1 + Cardinality(Invalidated(b))

\* The step replaces the handle of reservation b: a get_payment_info whose
\* retrieve of the handle it read reported "canceled" stores another handle.
ReplacesHandle(b) ==
  \E p \in Procs :
    /\ procs[p].op = "payment_info" /\ procs[p].pc = "inspect" /\ procs[p].b = b
    /\ procs'[p] # procs[p]
    /\ procs[p].pi \in DOMAIN piStatus /\ piStatus[procs[p].pi] = "canceled"

\* C37: a payment handle, once set, changes only in a get_payment_info step
\* (which passed the pending_payment and deadline guards when it loaded the
\* row) in which the provider reported the current handle canceled; that step
\* stores a new handle and increases version by exactly 1; no other step
\* changes or clears the handle.
C37_HandleChangesOnlyByReplacement ==
  [][\A b \in Ids :
       (bookings[b].payment_intent_id # NoPI
        /\ bookings'[b].payment_intent_id # bookings[b].payment_intent_id)
       => /\ ReplacesHandle(b)
          /\ piStatus[bookings[b].payment_intent_id] = "canceled"
          /\ bookings'[b].payment_intent_id # NoPI
          /\ bookings'[b].version = bookings[b].version + 1]_vars

\* C38: an exception the handler raises inside the with block while the cache
\* is reachable (429 busy, 409 overlap, 500 after rollback) reaches the caller
\* as that same exception: no request is answered with an error the lock
\* helper put in its place, and a key the request acquired is released.
C38_BodyExceptionReachesCaller ==
  \A p \in Procs :
    procs[p].pc = "done"
    => /\ procs[p].res # "500_runtime"
       /\ procs[p].res \in CreateErrors => \A pid \in PropertyIds : lock[pid] # p

\* C39: only a notification carrying the reservation's current payment handle
\* can confirm it, and a notification changes no reservation other than the
\* one whose payment_intent_id it carries: every row a webhook step changes
\* holds, at that step, the handle of the event the webhook was called with.
C39_WebhookChangesOnlyRowOfItsHandle ==
  [][\A p \in Procs :
       (procs[p].op = "webhook" /\ procs'[p] # procs[p] /\ bookings' # bookings)
       => \A b \in Ids :
            bookings'[b] # bookings[b]
            => bookings[b].payment_intent_id = procs[p].pi]_vars

\* C40: every counter key with a positive count carries an expiry once the
\* request that created it has been answered, so a client rejected for
\* exceeding the limit is admitted again after at most one window: its key
\* is eventually gone.
C40_RejectedIsAdmittedAgain ==
  /\ \A k \in Clients :
       (counters[k].n > RATE_LIMIT_WRITE_PER_WINDOW) ~> (counters[k].n = 0)
  /\ [](\A k \in Clients :
          (counters[k].n > 0 /\ ~counters[k].px)
          => \E p \in Procs : procs[p].pc = "expire" /\ procs[p].b = k)
====
